---- MODULE Spec2Model ----
(***************************************************************************)
(* Model of src/src/aztec-contracts.js: the deployment routine instantiate *)
(* and the transaction helpers mintConfidentialAsset, confidentialTransfer,*)
(* shieldsERC20toZkAsset and logNoteEvents.                                *)
(*                                                                         *)
(* Every awaited call to the node or to the artifact source either         *)
(* resolves or throws; which of the two is chosen nondeterministically.    *)
(* A dereference of an undefined value throws a TypeError before the call  *)
(* is made.                                                                *)
(***************************************************************************)
EXTENDS Integers, Sequences, FiniteSets, TLC

VARIABLES
    \* ---- instantiate -------------------------------------------------
    ipc,        \* position of instantiate: a step name, "returned" or "rejected"
    schemas,    \* artifact names whose let-variable holds a schema (lines 36-53)
    instances,  \* the registry: role -> address of the deployed instance (line 30)
    nonce,      \* number of contracts the sender has deployed so far
    trace,      \* what each executed step did: [step, result, args, ret]
    logged,     \* steps whose error was printed by a catch block
    result,     \* the registry instantiate returned (empty while it has not)
    \* ---- transaction helpers -------------------------------------------
    i,          \* the loop counter: one implicit global shared by all functions
    cur,        \* the invocation that holds the thread, 0 when all are suspended
    hpc,        \* position of each helper invocation
    call,       \* arguments of each invocation: [kind, inputs, outputs, display]
    acc,        \* each invocation's local totalMintedValue or kPublic
    counter,    \* value of the newMintCounterNote each mint invocation built
    receipt,    \* the logs of the receipt each invocation received
    visited,    \* the indices the body of logNoteEvents ran on, per invocation
    txs,        \* transactions submitted to the node, with their outcome
    console,    \* what was printed, in order
    exitCode,   \* exit status of the process, -1 while it runs
    mintedTotal \* total value minted on the asset by successful confidentialMint calls

ivars == <<ipc, schemas, instances, nonce, trace, logged, result>>
hvars == <<i, cur, hpc, call, acc, counter, receipt, visited, txs, console,
           exitCode, mintedTotal>>
vars == <<ivars, hvars>>

\* ------------------------------------------------------------------------
\* instantiate (lines 29-115)
\* ------------------------------------------------------------------------

\* The statements of instantiate that can throw, in program order.
Order ==
    << "readACE", "readJoinSplit", "readJoinSplitFluid", "readERC20Mintable",
       "readFactoryBase", "readFactoryAdjustable", "readZkAssetMintable", "readZkAsset",
       "newACE", "newJoinSplit", "newJoinSplitFluid", "newERC20",
       "newBaseFactory", "newAdjustableFactory",
       "setFactory1", "setFactory2", "setFactory3",
       "newZkAssetMintable", "newZkAsset",
       "setCRS", "setProofJoinSplit", "setProofMint",
       "logDeployed" >>

Terminal == {"returned", "rejected"}

\* The sender's account may already have deployed up to MaxNonce contracts.
MaxNonce == 2

IndexOf(s) == CHOOSE k \in 1..Len(Order) : Order[k] = s

\* The try block a statement stands in; "none" for an unguarded statement.
TryBlock(s) ==
    LET k == IndexOf(s) IN
    IF k <= 8 THEN "read"
    ELSE IF k <= 14 THEN "deploy"
    ELSE IF k <= 17 THEN "setFactory"
    ELSE IF k <= 19 THEN "zkAsset"
    ELSE "none"

Guarded(s) == TryBlock(s) # "none"

\* The statement that follows s when s completes normally.
NextStep(s) ==
    IF IndexOf(s) = Len(Order) THEN "returned" ELSE Order[IndexOf(s) + 1]

\* Where control goes when s throws inside its try block: the catch prints
\* the error and execution continues after the block.
\* (variant: each statement in a try block of its own)
CatchTargetNextStatement(s) == NextStep(s)
CatchTarget(s) ==
    Order[CHOOSE k \in (IndexOf(s) + 1)..Len(Order) :
            /\ TryBlock(Order[k]) # TryBlock(s)
            /\ \A j \in (IndexOf(s) + 1)..(k - 1) : TryBlock(Order[j]) = TryBlock(s)]

\* The artifact a read statement loads, or a deployment instantiates.
Artifact(s) ==
    CASE s \in {"readACE", "newACE"} -> "ACE.json"
      [] s \in {"readJoinSplit", "newJoinSplit"} -> "JoinSplit.json"
      [] s \in {"readJoinSplitFluid", "newJoinSplitFluid"} -> "JoinSplitFluid.json"
      [] s \in {"readERC20Mintable", "newERC20"} -> "ERC20Mintable.json"
      [] s \in {"readFactoryBase", "newBaseFactory"} -> "FactoryBase201907.json"
      [] s \in {"readFactoryAdjustable", "newAdjustableFactory"} -> "FactoryAdjustable201907.json"
      [] s \in {"readZkAssetMintable", "newZkAssetMintable"} -> "ZkAssetMintable.json"
      [] s \in {"readZkAsset", "newZkAsset"} -> "ZkAsset.json"
      [] OTHER -> ""

IsRead(s) == TryBlock(s) = "read"
IsDeploy(s) == TryBlock(s) \in {"deploy", "zkAsset"}

\* The registry key a deployment statement assigns.
Role(s) ==
    CASE s = "newACE" -> "ace"
      [] s = "newJoinSplit" -> "joinSplit"
      [] s = "newJoinSplitFluid" -> "joinSplitFluid"
      [] s = "newERC20" -> "erc20"
      [] s = "newBaseFactory" -> "baseFactory"
      [] s = "newAdjustableFactory" -> "adjustableFactory"
      [] s = "newZkAssetMintable" -> "zkAssetMintable"
      [] s = "newZkAsset" -> "zkAsset"
      [] OTHER -> ""

Roles ==
    {"ace", "joinSplit", "joinSplitFluid", "erc20", "baseFactory",
     "adjustableFactory", "zkAssetMintable", "zkAsset"}

\* The registry entries a statement dereferences (instances.X.address or
\* instances.X.method).
Uses(s) ==
    CASE s \in {"newBaseFactory", "newAdjustableFactory"} -> {"ace"}
      [] s = "setFactory1" -> {"ace", "baseFactory"}
      [] s \in {"setFactory2", "setFactory3"} -> {"ace", "adjustableFactory"}
      [] s \in {"newZkAssetMintable", "newZkAsset"} -> {"ace", "erc20"}
      [] s = "setCRS" -> {"ace"}
      [] s = "setProofJoinSplit" -> {"ace", "joinSplit"}
      [] s = "setProofMint" -> {"ace", "joinSplitFluid"}
      [] s = "logDeployed" -> Roles
      [] OTHER -> {}

\* The factory a setFactory statement registers.
FactoryRole(n) == IF n = 1 THEN "baseFactory" ELSE "adjustableFactory"

\* The numeric identifier setFactory is called with.
\* (variant: n in the second byte)
FactoryIdSwapped(n) == 1 * 256 ^ 2 + n * 256 ^ 1 + 1 * 256 ^ 0
FactoryId(n) == 1 * 256 ^ 2 + 1 * 256 ^ 1 + n * 256 ^ 0

FactoryNo(s) ==
    CASE s = "setFactory1" -> 1 [] s = "setFactory2" -> 2 [] s = "setFactory3" -> 3

\* The engine address the factories and assets are constructed with.
\* (variant: the token's address passed for the engine's)
EngineArgToken(reg) == reg["erc20"]
EngineArg(reg) == reg["ace"]

\* The arguments a statement passes to the call it makes (txOptions left out).
Args(s) ==
    CASE IsRead(s) -> <<Artifact(s)>>
      [] s \in {"newBaseFactory", "newAdjustableFactory"} -> <<EngineArg(instances)>>
      [] s \in {"setFactory1", "setFactory2", "setFactory3"} ->
            <<FactoryId(FactoryNo(s)), instances[FactoryRole(FactoryNo(s))]>>
      [] s = "newZkAssetMintable" ->
            <<EngineArg(instances), instances["erc20"], "ERC20_SCALING_FACTOR", 0, <<>> >>
      [] s = "newZkAsset" -> <<EngineArg(instances), instances["erc20"], 1>>
      [] s = "setCRS" -> <<"bn128.CRS">>
      [] s = "setProofJoinSplit" -> <<"JOIN_SPLIT_PROOF", instances["joinSplit"]>>
      [] s = "setProofMint" -> <<"MINT_PROOF", instances["joinSplitFluid"]>>
      [] OTHER -> <<>>

\* s dereferences an undefined schema variable or registry entry.
TypeError(s) ==
    \/ IsDeploy(s) /\ Artifact(s) \notin schemas
    \/ \E r \in Uses(s) : r \notin DOMAIN instances

\* s makes a call to the node or to the artifact source.
MakesCall(s) == s # "logDeployed"

\* Control after s throws.
\* (variant: the unguarded statements guarded as well)
OnThrowSwallowed(s) == IF Guarded(s) THEN CatchTarget(s) ELSE NextStep(s)
OnThrow(s) == IF Guarded(s) THEN CatchTarget(s) ELSE "rejected"

\* One statement of instantiate. ok: whether the call it makes resolves.
Step(s, ok) ==
    /\ ipc = s
    /\ LET te == TypeError(s)
           good == ~te /\ (ok \/ ~MakesCall(s))
           res == IF te THEN "typeError" ELSE IF good THEN "ok" ELSE "failed"
       IN /\ trace' = Append(trace, [step |-> s, result |-> res,
                                      args |-> IF te THEN <<>> ELSE Args(s),
                                      ret |-> IF good /\ IsDeploy(s) THEN nonce + 1 ELSE 0])
          /\ ipc' = IF good THEN NextStep(s) ELSE OnThrow(s)
          /\ logged' = IF ~good /\ Guarded(s) THEN Append(logged, s) ELSE logged
          /\ schemas' = IF good /\ IsRead(s) THEN schemas \cup {Artifact(s)} ELSE schemas
          /\ instances' = IF good /\ IsDeploy(s)
                          THEN instances @@ (Role(s) :> (nonce + 1))
                          ELSE instances
          /\ nonce' = IF good /\ IsDeploy(s) THEN nonce + 1 ELSE nonce
          /\ result' = IF good /\ NextStep(s) = "returned" THEN instances ELSE result
    /\ UNCHANGED hvars

StepsOf(block) == {Order[k] : k \in {j \in 1..Len(Order) : TryBlock(Order[j]) = block}}

\* lines 45-56: the eight readContract calls, in one try block
ReadContracts ==
    \E s \in StepsOf("read"), ok \in BOOLEAN : ipc = s /\ Step(s, ok)

\* lines 58-68: engine, verifiers, token and factories, in one try block
DeployContracts ==
    \E s \in StepsOf("deploy"), ok \in BOOLEAN : ipc = s /\ Step(s, ok)

\* lines 70-77: the three setFactory calls, in one try block
SetFactories ==
    \E s \in StepsOf("setFactory"), ok \in BOOLEAN :
        ipc = s /\ Step(s, ok)

\* lines 79-97: the two assets, in one try block
DeployZkAssets ==
    \E s \in StepsOf("zkAsset"), ok \in BOOLEAN : ipc = s /\ Step(s, ok)

\* lines 99-102: setCommonReferenceString and the two setProof calls, unguarded
ConfigureEngine ==
    \E s \in {"setCRS", "setProofJoinSplit", "setProofMint"}, ok \in BOOLEAN :
        ipc = s /\ Step(s, ok)

\* lines 104-114: print the eight addresses and return the registry
LogDeployed == ipc = "logDeployed" /\ Step("logDeployed", TRUE)

NoRegistry == [r \in {} |-> 0]

InitInstantiate ==
    /\ ipc = Order[1]
    /\ schemas = {}
    /\ instances = NoRegistry
    /\ nonce \in 0..MaxNonce
    /\ trace = <<>>
    /\ logged = <<>>
    /\ result = NoRegistry

NextInstantiate ==
    \/ ReadContracts
    \/ DeployContracts
    \/ SetFactories
    \/ DeployZkAssets
    \/ ConfigureEngine
    \/ LogDeployed

\* ------------------------------------------------------------------------
\* Transaction helpers (lines 119-226)
\* ------------------------------------------------------------------------

MaxNotes == 2    \* longest list of notes passed to a helper that runs alone
MaxValue == 2    \* largest note value
MaxLogs == 2     \* longest list of logs in a receipt of a helper that runs alone
NumInv == 2      \* helper invocations a caller makes in one run

Inv == 1..NumInv

SeqsUpTo(S, n) == UNION {[1..m -> S] : m \in 0..n}

\* A note is represented by its value, what notes[i].k.toNumber() returns.
NoteLists(n) == SeqsUpTo(1..MaxValue, n)

Events == {"CreateNote", "DestroyNote", "UpdateTotalMinted"}
LogEntries ==
    { [event |-> "CreateNote", owner |-> "0xA1", noteHash |-> "0x01"],
      [event |-> "DestroyNote", owner |-> "0xA2", noteHash |-> "0x02"],
      [event |-> "UpdateTotalMinted", owner |-> "0xA1", noteHash |-> "0x03"] }
LogLists(n) == SeqsUpTo(LogEntries, n)

\* The calls a helper running alone is checked on: every kind, all lists of
\* notes. A mint's notes are held in outputs; mint and shield have no
\* display parameter.
Calls(lists) ==
    {c \in [kind : {"mint", "transfer", "shield"}, inputs : lists, outputs : lists,
            display : BOOLEAN] :
        /\ c.kind = "mint" => c.inputs = <<>> /\ c.display
        /\ c.kind = "shield" => c.display}

\* The calls several invocations of one run are checked on: mint two notes
\* of 5 and 7; transfer a note of 10 into notes of 4 and 6, reporting the
\* events or not; transfer notes of 4 and 6 into a note of 3, 7 going
\* public; shield 20 tokens into one note.
ScenarioCalls ==
    { [kind |-> "mint", inputs |-> <<>>, outputs |-> <<5, 7>>, display |-> TRUE],
      [kind |-> "transfer", inputs |-> <<10>>, outputs |-> <<4, 6>>, display |-> TRUE],
      [kind |-> "transfer", inputs |-> <<10>>, outputs |-> <<4, 6>>, display |-> FALSE],
      [kind |-> "transfer", inputs |-> <<4, 6>>, outputs |-> <<3>>, display |-> TRUE],
      [kind |-> "shield", inputs |-> <<>>, outputs |-> <<20>>, display |-> TRUE] }

\* The receipts these invocations may get.
ScenarioReceipts ==
    { <<>>,
      << [event |-> "CreateNote", owner |-> "0xA1", noteHash |-> "0x01"],
         [event |-> "UpdateTotalMinted", owner |-> "0xA1", noteHash |-> "0x03"] >>,
      << [event |-> "DestroyNote", owner |-> "0xA2", noteHash |-> "0x02"],
         [event |-> "CreateNote", owner |-> "0xA1", noteHash |-> "0x01"] >> }

NoCall == [kind |-> "none", inputs |-> <<>>, outputs |-> <<>>, display |-> TRUE]

\* The positions at which an invocation is suspended in an await, or is over.
AwaitPoints ==
    {"awaitZero", "awaitCounter", "awaitMint", "awaitTransfer",
     "awaitApprove", "awaitShield", "returned", "rejected"}

LoopTests == {"sumNotes.test", "subOutputs.test", "addInputs.test", "logEvents.test"}

\* Whether control is given up on reaching position p: only an await (or the
\* end of the function) does; no loop contains one.
\* (variant: an await in the body of each loop)
SuspendsInLoop(p) == p \in AwaitPoints \cup LoopTests
Suspends(p) == p \in AwaitPoints

Holder(v, p) == IF Suspends(p) THEN 0 ELSE v

\* v may take its next step: the process runs, and v holds the thread or
\* nobody does.
Runnable(v) == exitCode = -1 /\ cur \in {0, v}

\* The status process.exit(code) ends the process with.
ExitStatus(code) == code % 256

\* The first statement of each helper's body.
Entry(kind) == IF kind = "mint" THEN "sumNotes.init" ELSE "subOutputs.init"

\* A caller invokes a helper: lines 119, 150, 182.
Call(v, calls) ==
    /\ Runnable(v) /\ cur = 0
    /\ hpc[v] = "idle"
    /\ \A w \in Inv : w < v => hpc[w] # "idle"
    /\ \E c \in calls :
          /\ call' = [call EXCEPT ![v] = c]
          /\ hpc' = [hpc EXCEPT ![v] = Entry(c.kind)]
    /\ acc' = [acc EXCEPT ![v] = 0]
    /\ cur' = v
    /\ UNCHANGED <<i, counter, receipt, visited, txs, console, exitCode, mintedTotal>>
    /\ UNCHANGED ivars

LoopOf(p) ==
    CASE p \in {"sumNotes.init", "sumNotes.test"} -> "sumNotes"
      [] p \in {"subOutputs.init", "subOutputs.test"} -> "subOutputs"
      [] p \in {"addInputs.init", "addInputs.test"} -> "addInputs"
      [] p \in {"logEvents.init", "logEvents.test"} -> "logEvents"
      [] OTHER -> "none"

\* The list a loop runs over.
LoopList(v, loop) ==
    CASE loop \in {"sumNotes", "subOutputs"} -> call[v].outputs
      [] loop = "addInputs" -> call[v].inputs
      [] loop = "logEvents" -> receipt[v]

\* Where control goes when the loop's test fails.
AfterLoop(v, loop) ==
    CASE loop = "sumNotes" -> "createZero"
      [] loop = "subOutputs" -> "addInputs.init"
      [] loop = "addInputs" -> IF call[v].kind = "shield" THEN "approve" ELSE "submitTransfer"
      [] loop = "logEvents" -> "epilogue"

\* The value the loop counter has when a for statement starts its loop.
\* (variant: for (; ...) without the i = 0)
LoopStartStale(n) == n
LoopStart(n) == 0

\* for (i = 0; ...): lines 122, 153, 156, 185, 188, 217
LoopInit(v) ==
    /\ Runnable(v) /\ cur = v
    /\ hpc[v] \in {"sumNotes.init", "subOutputs.init", "addInputs.init", "logEvents.init"}
    /\ i' = LoopStart(i)
    /\ hpc' = [hpc EXCEPT ![v] = LoopOf(hpc[v]) \o ".test"]
    /\ cur' = Holder(v, hpc'[v])
    /\ UNCHANGED <<call, acc, counter, receipt, visited, txs, console, exitCode, mintedTotal>>
    /\ UNCHANGED ivars

\* The record logNoteEvents prints for a log entry (lines 219-223).
NoteRecord(v, e) ==
    [inv |-> v, type |-> "note", text |-> e.event, owner |-> e.owner, hash |-> e.noteHash]

\* (variant: DestroyNote left out)
RecognizedCreateOnly(e) == e.event = "CreateNote"
Recognized(e) == e.event = "CreateNote" \/ e.event = "DestroyNote"

\* The loop's test, and when it holds its body and i++:
\* lines 122-124, 153-158, 185-190, 217-225.
LoopIter(v) ==
    /\ Runnable(v)
    /\ hpc[v] \in LoopTests
    /\ LET loop == LoopOf(hpc[v])
           list == LoopList(v, loop)
       IN IF i < Len(list)
          THEN /\ i' = i + 1
               /\ acc' = [acc EXCEPT ![v] =
                            CASE loop = "sumNotes" -> @ + list[i + 1]
                              [] loop = "subOutputs" -> @ - list[i + 1]
                              [] loop = "addInputs" -> @ + list[i + 1]
                              [] OTHER -> @]
               /\ visited' = IF loop = "logEvents"
                             THEN [visited EXCEPT ![v] = Append(@, i + 1)]
                             ELSE visited
               /\ console' = IF loop = "logEvents" /\ Recognized(list[i + 1])
                             THEN Append(console, NoteRecord(v, list[i + 1]))
                             ELSE console
               /\ hpc' = hpc
               /\ cur' = Holder(v, hpc[v])
          ELSE /\ hpc' = [hpc EXCEPT ![v] = AfterLoop(v, loop)]
               /\ cur' = v
               /\ UNCHANGED <<i, acc, visited, console>>
    /\ UNCHANGED <<call, counter, receipt, txs, exitCode, mintedTotal>>
    /\ UNCHANGED ivars

RECURSIVE SumSeq(_)
SumSeq(s) == IF s = <<>> THEN 0 ELSE s[1] + SumSeq(Tail(s))

Text(v, type, text) ==
    [inv |-> v, type |-> type, text |-> text, owner |-> "", hash |-> ""]

\* The transaction v submitted last gets its outcome.
Settle(v, status) ==
    LET k == CHOOSE j \in 1..Len(txs) :
                 txs[j].inv = v /\ \A m \in (j + 1)..Len(txs) : txs[m].inv # v
    IN [txs EXCEPT ![k].status = status]

\* A call v submits: fn is called on contract `on`; asset, proof and amount
\* are its arguments (txOptions left out).
Tx(v, on, fn, asset, proof, amount) ==
    [inv |-> v, on |-> on, fn |-> fn, asset |-> asset, proof |-> proof,
     amount |-> amount, status |-> "pending"]

\* The value of the note createZeroValueNote returns: the old mint counter.
ZeroValueNote == 0

\* The value the new mint counter note is created with (line 128).
NewCounter(total) == total

\* new MintProof(zeroMintCounterNote, newMintCounterNote, adjustedNotes, sender)
MintProofOf(old, new, notes) == [old |-> old, new |-> new, notes |-> notes]

\* new JoinSplitProof(inputNotes, outputNotes, txOptions.from, kPublic, publicOwner)
JoinSplitProofOf(ins, outs, kPublic) ==
    [inputs |-> ins, outputs |-> outs, kPublic |-> kPublic]

\* proof.hash: determined by the proof's content
ProofHash(proof) == <<"hash", proof>>

\* The amount publicApprove is called with (line 201).
\* (variant: kPublic passed as it is)
ApprovedAmountUnnegated(kPublic) == kPublic
ApprovedAmount(kPublic) == -kPublic

\* The calls whose failure is caught by a handler that prints the error and
\* ends the process: lines 137-145, 166-177, 205-211. publicApprove (lines
\* 198-203) stands outside every try block.
\* (variant: no handler around confidentialMint)
FatalTransferOnly(fn) == fn = "confidentialTransfer"
Fatal(fn) == fn \in {"confidentialMint", "confidentialTransfer"}

\* What follows the failure of the call v awaited.
Failure(v, fn, msg) ==
    IF Fatal(fn)
    THEN /\ console' = Append(console, Text(v, "error", msg))
         /\ exitCode' = ExitStatus(-1)
         /\ UNCHANGED <<hpc, cur>>
    ELSE /\ hpc' = [hpc EXCEPT ![v] = "rejected"]
         /\ cur' = 0
         /\ UNCHANGED <<console, exitCode>>

\* line 127: await note.createZeroValueNote()
MintCreateZero(v) ==
    /\ Runnable(v) /\ hpc[v] = "createZero"
    /\ hpc' = [hpc EXCEPT ![v] = "awaitZero"]
    /\ cur' = Holder(v, "awaitZero")
    /\ UNCHANGED <<i, call, acc, counter, receipt, visited, txs, console, exitCode, mintedTotal>>
    /\ UNCHANGED ivars

\* line 128: await note.create(aztecAccount.publicKey, totalMintedValue)
MintCreateCounter(v) ==
    /\ Runnable(v) /\ hpc[v] = "awaitZero"
    /\ hpc' = [hpc EXCEPT ![v] = "awaitCounter"]
    /\ cur' = Holder(v, "awaitCounter")
    /\ UNCHANGED <<i, call, acc, counter, receipt, visited, txs, console, exitCode, mintedTotal>>
    /\ UNCHANGED ivars

\* lines 128-138: the counter note is built, the proof made and submitted
MintSubmit(v) ==
    /\ Runnable(v) /\ hpc[v] = "awaitCounter"
    /\ counter' = [counter EXCEPT ![v] = NewCounter(acc[v])]
    /\ txs' = Append(txs, Tx(v, "zkAssetMintable", "confidentialMint", "",
                             MintProofOf(ZeroValueNote, counter'[v], call[v].outputs), 0))
    /\ hpc' = [hpc EXCEPT ![v] = "awaitMint"]
    /\ cur' = Holder(v, "awaitMint")
    /\ UNCHANGED <<i, call, acc, receipt, visited, console, exitCode, mintedTotal>>
    /\ UNCHANGED ivars

\* lines 138-145: the outcome of confidentialMint
MintResult(v, logLists) ==
    /\ Runnable(v) /\ hpc[v] = "awaitMint"
    /\ \/ /\ \E logs \in logLists : receipt' = [receipt EXCEPT ![v] = logs]
          /\ txs' = Settle(v, "ok")
          /\ mintedTotal' = mintedTotal + SumSeq(call[v].outputs)
          /\ console' = Append(console, Text(v, "text", "confidentialMint success. events:"))
          /\ hpc' = [hpc EXCEPT ![v] = "logEvents.init"]
          /\ cur' = v
          /\ UNCHANGED exitCode
       \/ /\ txs' = Settle(v, "failed")
          /\ Failure(v, "confidentialMint", "confidentialMint failed")
          /\ UNCHANGED <<receipt, mintedTotal>>
    /\ UNCHANGED <<i, call, acc, counter, visited>>
    /\ UNCHANGED ivars

\* lines 160-167: the proof is made and confidentialTransfer submitted
SubmitTransfer(v) ==
    /\ Runnable(v) /\ hpc[v] = "submitTransfer"
    /\ txs' = Append(txs, Tx(v, "zkAssetMintable", "confidentialTransfer", "",
                             JoinSplitProofOf(call[v].inputs, call[v].outputs, acc[v]), 0))
    /\ hpc' = [hpc EXCEPT ![v] = "awaitTransfer"]
    /\ cur' = Holder(v, "awaitTransfer")
    /\ UNCHANGED <<i, call, acc, counter, receipt, visited, console, exitCode, mintedTotal>>
    /\ UNCHANGED ivars

\* lines 167-177: the outcome of confidentialTransfer
TransferResult(v, logLists) ==
    /\ Runnable(v) /\ hpc[v] = "awaitTransfer"
    /\ \/ /\ \E logs \in logLists : receipt' = [receipt EXCEPT ![v] = logs]
          /\ txs' = Settle(v, "ok")
          /\ IF call[v].display
             THEN /\ console' = Append(console,
                                   Text(v, "text", "confidentialTransfer success. events:"))
                  /\ hpc' = [hpc EXCEPT ![v] = "logEvents.init"]
                  /\ cur' = v
             ELSE /\ hpc' = [hpc EXCEPT ![v] = "returned"]
                  /\ cur' = Holder(v, "returned")
                  /\ UNCHANGED console
          /\ UNCHANGED exitCode
       \/ /\ txs' = Settle(v, "failed")
          /\ Failure(v, "confidentialTransfer", "confidentialTransfer failed")
          /\ UNCHANGED receipt
    /\ UNCHANGED <<i, call, acc, counter, visited, mintedTotal>>
    /\ UNCHANGED ivars

\* lines 192-203: the proof is made and publicApprove submitted
Approve(v) ==
    /\ Runnable(v) /\ hpc[v] = "approve"
    /\ txs' = Append(txs, Tx(v, "ace", "publicApprove", "zkAsset.address",
                             ProofHash(JoinSplitProofOf(call[v].inputs, call[v].outputs, acc[v])),
                             ApprovedAmount(acc[v])))
    /\ hpc' = [hpc EXCEPT ![v] = "awaitApprove"]
    /\ cur' = Holder(v, "awaitApprove")
    /\ UNCHANGED <<i, call, acc, counter, receipt, visited, console, exitCode, mintedTotal>>
    /\ UNCHANGED ivars

\* lines 198-206: the outcome of publicApprove; on success confidentialTransfer
\* is submitted
ApproveResult(v) ==
    /\ Runnable(v) /\ hpc[v] = "awaitApprove"
    /\ \/ /\ txs' = Append(Settle(v, "ok"),
                          Tx(v, "zkAsset", "confidentialTransfer", "",
                             JoinSplitProofOf(call[v].inputs, call[v].outputs, acc[v]), 0))
          /\ hpc' = [hpc EXCEPT ![v] = "awaitShield"]
          /\ cur' = Holder(v, "awaitShield")
          /\ UNCHANGED <<console, exitCode>>
       \/ /\ txs' = Settle(v, "failed")
          /\ Failure(v, "publicApprove", "deposit failed")
    /\ UNCHANGED <<i, call, acc, counter, receipt, visited, mintedTotal>>
    /\ UNCHANGED ivars

\* lines 205-211: the outcome of the shield's confidentialTransfer
ShieldResult(v, logLists) ==
    /\ Runnable(v) /\ hpc[v] = "awaitShield"
    /\ \/ /\ \E logs \in logLists : receipt' = [receipt EXCEPT ![v] = logs]
          /\ txs' = Settle(v, "ok")
          /\ hpc' = [hpc EXCEPT ![v] = "logEvents.init"]
          /\ cur' = v
          /\ UNCHANGED <<console, exitCode>>
       \/ /\ txs' = Settle(v, "failed")
          /\ Failure(v, "confidentialTransfer", "deposit failed")
          /\ UNCHANGED receipt
    /\ UNCHANGED <<i, call, acc, counter, visited, mintedTotal>>
    /\ UNCHANGED ivars

\* lines 141, 171, 207: after logNoteEvents the helper prints the line break
\* (mint, transfer) and returns
Epilogue(v) ==
    /\ Runnable(v) /\ hpc[v] = "epilogue"
    /\ console' = IF call[v].kind \in {"mint", "transfer"}
                  THEN Append(console, Text(v, "text", "lineBreak"))
                  ELSE console
    /\ hpc' = [hpc EXCEPT ![v] = "returned"]
    /\ cur' = Holder(v, "returned")
    /\ UNCHANGED <<i, call, acc, counter, receipt, visited, txs, exitCode, mintedTotal>>
    /\ UNCHANGED ivars

InitHelpers ==
    /\ i = 0
    /\ cur = 0
    /\ hpc = [v \in Inv |-> "idle"]
    /\ call = [v \in Inv |-> NoCall]
    /\ acc = [v \in Inv |-> 0]
    /\ counter = [v \in Inv |-> 0]
    /\ receipt = [v \in Inv |-> <<>>]
    /\ visited = [v \in Inv |-> <<>>]
    /\ txs = <<>>
    /\ console = <<>>
    /\ exitCode = -1
    /\ mintedTotal = 0

\* One helper invocation, running alone.
NextHelper ==
    \E v \in {1} :
        \/ Call(v, Calls(NoteLists(MaxNotes)))
        \/ LoopInit(v)
        \/ LoopIter(v)
        \/ MintCreateZero(v)
        \/ MintCreateCounter(v)
        \/ MintSubmit(v)
        \/ MintResult(v, LogLists(MaxLogs))
        \/ SubmitTransfer(v)
        \/ TransferResult(v, LogLists(MaxLogs))
        \/ Approve(v)
        \/ ApproveResult(v)
        \/ ShieldResult(v, LogLists(MaxLogs))
        \/ Epilogue(v)

\* A caller that awaits each helper before it calls the next.
CallAwaited(v, calls) ==
    /\ \A w \in Inv : hpc[w] \in {"idle", "returned", "rejected"}
    /\ Call(v, calls)

\* NumInv invocations, one after the other.
NextSequential ==
    \E v \in Inv :
        \/ CallAwaited(v, ScenarioCalls)
        \/ LoopInit(v)
        \/ LoopIter(v)
        \/ MintCreateZero(v)
        \/ MintCreateCounter(v)
        \/ MintSubmit(v)
        \/ MintResult(v, ScenarioReceipts)
        \/ SubmitTransfer(v)
        \/ TransferResult(v, ScenarioReceipts)
        \/ Approve(v)
        \/ ApproveResult(v)
        \/ ShieldResult(v, ScenarioReceipts)
        \/ Epilogue(v)

\* NumInv invocations, each started while the earlier ones may be suspended.
NextConcurrent ==
    \E v \in Inv :
        \/ Call(v, ScenarioCalls)
        \/ LoopInit(v)
        \/ LoopIter(v)
        \/ MintCreateZero(v)
        \/ MintCreateCounter(v)
        \/ MintSubmit(v)
        \/ MintResult(v, ScenarioReceipts)
        \/ SubmitTransfer(v)
        \/ TransferResult(v, ScenarioReceipts)
        \/ Approve(v)
        \/ ApproveResult(v)
        \/ ShieldResult(v, ScenarioReceipts)
        \/ Epilogue(v)

Init == InitInstantiate /\ InitHelpers

\* the helpers are run from a fresh sender account
InitAt0 == Init /\ nonce = 0

\* instantiate, from a sender that has deployed 0..MaxNonce contracts
SpecInstantiate == Init /\ [][NextInstantiate]_vars

\* a helper invocation alone
SpecHelper == InitAt0 /\ [][NextHelper]_vars

\* helper invocations made one after the other, each awaited
SpecSequential == InitAt0 /\ [][NextSequential]_vars

\* helper invocations started without awaiting one another
SpecConcurrent == InitAt0 /\ [][NextConcurrent]_vars

\* ------------------------------------------------------------------------
\* Properties of instantiate
\* ------------------------------------------------------------------------

TraceIdx == 1..Len(trace)
Threw(k) == trace[k].result # "ok"
AllSucceeded == \A k \in TraceIdx : ~Threw(k)
Attempted(s) == \E k \in TraceIdx : trace[k].step = s

DeploymentAndRegistrationSteps ==
    {"newACE", "newJoinSplit", "newJoinSplitFluid", "newERC20", "newBaseFactory",
     "newAdjustableFactory", "setFactory1", "setFactory2", "setFactory3",
     "newZkAssetMintable", "newZkAsset"}

\* The first statement after each try block, read off lines 58-100.
AfterBlockOf(s) ==
    CASE s \in {"newACE", "newJoinSplit", "newJoinSplitFluid", "newERC20",
                "newBaseFactory", "newAdjustableFactory"} -> "setFactory1"
      [] s \in {"setFactory1", "setFactory2", "setFactory3"} -> "newZkAssetMintable"
      [] s \in {"newZkAssetMintable", "newZkAsset"} -> "setCRS"

SameBlock(s, u) == AfterBlockOf(s) = AfterBlockOf(u)

\* C2 as stated: when a single deployment or setFactory call fails, every
\* deployment and registration statement after it is still attempted by the
\* time instantiate ends.
C2_LaterStepsStillAttempted ==
    ipc \in Terminal =>
        \A k \in TraceIdx :
            ( /\ trace[k].step \in DeploymentAndRegistrationSteps
              /\ trace[k].result = "failed"
              /\ \A j \in TraceIdx \ {k} : trace[j].result # "failed" )
            => \A s \in DeploymentAndRegistrationSteps :
                   IndexOf(s) > IndexOf(trace[k].step) => Attempted(s)

\* C2 amended: a deployment or setFactory statement that throws is caught and
\* its error logged; the statements left in its try block are skipped, and
\* execution continues with the first statement after that block.
C2_FailureSkipsRestOfBlock ==
    /\ logged = [n \in 1..Len(logged) |->
                    SelectSeq(trace, LAMBDA e : Guarded(e.step) /\ e.result # "ok")[n].step]
    /\ \A k \in TraceIdx :
          (trace[k].step \in DeploymentAndRegistrationSteps /\ Threw(k)) =>
              /\ \E n \in 1..Len(logged) : logged[n] = trace[k].step
              /\ IF k = Len(trace)
                 THEN ipc = AfterBlockOf(trace[k].step)
                 ELSE trace[k + 1].step = AfterBlockOf(trace[k].step)
              /\ \A j \in TraceIdx :
                    (j > k /\ trace[j].step \in DeploymentAndRegistrationSteps)
                    => ~SameBlock(trace[j].step, trace[k].step)

\* A deployment failed in the middle of its block and instantiate went on.
C2_Witness ==
    \E k \in TraceIdx :
        /\ trace[k].step = "newJoinSplit" /\ trace[k].result = "failed"
        /\ k < Len(trace) /\ trace[k + 1].step = "setFactory1"

EntryOf(s) == trace[CHOOSE k \in TraceIdx : trace[k].step = s]
PositionOf(s) == CHOOSE k \in TraceIdx : trace[k].step = s

\* C6: when every call succeeds, instantiate returns a registry of exactly
\* the 8 roles, each bound to the address its deployment returned; the ace
\* deployment completes before either factory deployment starts, and both
\* factories and both zkAssets are constructed with the ace's address.
C6_RegistryComplete ==
    (ipc = "returned" /\ AllSucceeded) =>
        /\ DOMAIN result = Roles
        /\ Cardinality(DOMAIN result) = 8
        /\ \A r \in Roles :
              \E k \in TraceIdx :
                  /\ IsDeploy(trace[k].step) /\ Role(trace[k].step) = r
                  /\ trace[k].ret = result[r]
        /\ \A r, q \in Roles : r # q => result[r] # result[q]
        /\ PositionOf("newACE") < PositionOf("newBaseFactory")
        /\ PositionOf("newACE") < PositionOf("newAdjustableFactory")
        /\ EntryOf("newBaseFactory").args = <<result["ace"]>>
        /\ EntryOf("newAdjustableFactory").args = <<result["ace"]>>
        /\ EntryOf("newZkAssetMintable").args[1] = result["ace"]
        /\ EntryOf("newZkAsset").args[1] = result["ace"]

\* instantiate returned after a run in which nothing threw.
C6_Witness == ipc = "returned" /\ AllSucceeded /\ Len(trace) = Len(Order)

\* The setFactory calls made so far, in order.
SetFactoryCalls ==
    SelectSeq(trace, LAMBDA e : e.step \in {"setFactory1", "setFactory2", "setFactory3"}
                                 /\ e.result # "typeError")

\* C7: the setFactory calls are made with the keys 65536 + 256 + N for
\* N = 1, 2, 3 in that order, N = 1 with the base factory's address and
\* N = 2, 3 with the adjustable factory's address; no other key is
\* registered, and a run in which nothing throws makes all three.
C7_FactoryKeys ==
    /\ Len(SetFactoryCalls) <= 3
    /\ \A n \in 1..Len(SetFactoryCalls) :
          SetFactoryCalls[n].args =
              <<65536 + 256 + n,
                instances[IF n = 1 THEN "baseFactory" ELSE "adjustableFactory"]>>
    /\ (ipc = "returned" /\ AllSucceeded) => Len(SetFactoryCalls) = 3

\* All three registrations were made and succeeded.
C7_Witness ==
    /\ Len(SetFactoryCalls) = 3
    /\ \A n \in 1..3 : SetFactoryCalls[n].result = "ok"

ConfigSteps == <<"setCRS", "setProofJoinSplit", "setProofMint">>
IsConfig(s) == \E n \in 1..3 : ConfigSteps[n] = s

\* C9: whatever the earlier statements did, instantiate does not end before
\* it has attempted setCommonReferenceString; the configuration calls come
\* in the order setCRS, setProof(join-split), setProof(mint); one that throws
\* is not caught: instantiate rejects, returns no registry, logs nothing for
\* it, and makes no later call.
C9_ConfigUnguarded ==
    /\ ipc \in Terminal => Attempted("setCRS")
    /\ LET cfg == SelectSeq(trace, LAMBDA e : IsConfig(e.step))
       IN \A n \in 1..Len(cfg) : cfg[n].step = ConfigSteps[n]
    /\ \A k \in TraceIdx :
          (IsConfig(trace[k].step) /\ Threw(k)) =>
              /\ k = Len(trace)
              /\ ipc = "rejected"
              /\ DOMAIN result = {}
              /\ \A n \in 1..Len(logged) : logged[n] # trace[k].step

\* A registration failed earlier and was caught, setCRS was still called,
\* and the join-split setProof call then failed.
C9_Witness ==
    /\ ipc = "rejected"
    /\ \E k \in TraceIdx : trace[k].step = "setFactory2" /\ trace[k].result = "failed"
    /\ trace[Len(trace)].step = "setProofJoinSplit"
    /\ trace[Len(trace)].result = "failed"
    /\ Attempted("setCRS")

\* ------------------------------------------------------------------------
\* Properties of the transaction helpers
\* ------------------------------------------------------------------------

TxIdx == 1..Len(txs)
TxsOf(v, fn) == {k \in TxIdx : txs[k].inv = v /\ txs[k].fn = fn}
Printed(v, type) == SelectSeq(console, LAMBDA e : e.inv = v /\ e.type = type)
Over(v) == hpc[v] \in {"returned", "rejected"}

\* C1 as stated: in a sequence of mint calls on the asset, the counter note
\* of the proof a call submits has the value of the notes it mints plus the
\* previous counter, the total minted by the earlier successful calls.
C1_CounterAddsPrevious ==
    \A v \in Inv :
        (call[v].kind = "mint" /\ hpc[v] = "awaitMint") =>
            /\ counter[v] = SumSeq(call[v].outputs) + mintedTotal
            /\ \E k \in TxsOf(v, "confidentialMint") :
                  /\ txs[k].proof.old = mintedTotal
                  /\ txs[k].proof.new = SumSeq(txs[k].proof.notes) + mintedTotal

\* C3 as stated: every failed transaction of a helper, publicApprove
\* included, is logged and ends the process with a non-zero status; the
\* helper reports no note event and neither returns nor rejects.
C3_EveryFailureFatal ==
    \A k \in TxIdx :
        txs[k].status = "failed" =>
            /\ exitCode \notin {-1, 0}
            /\ Len(Printed(txs[k].inv, "error")) = 1
            /\ Len(Printed(txs[k].inv, "note")) = 0
            /\ ~Over(txs[k].inv)

\* C3 amended: a failed confidentialMint or confidentialTransfer (of the
\* transfer or of the shield helper) is logged and ends the process with a
\* non-zero status, nothing is printed after the error, the helper reports
\* no note event and neither returns nor rejects. A failed publicApprove is
\* not caught: the shield helper rejects to its caller, nothing is logged,
\* the process goes on, and confidentialTransfer is not submitted.
C3_SubmissionFailure ==
    \A k \in TxIdx :
        txs[k].status = "failed" =>
            LET v == txs[k].inv IN
            IF txs[k].fn \in {"confidentialMint", "confidentialTransfer"}
            THEN /\ exitCode \notin {-1, 0}
                 /\ exitCode = 255
                 /\ Len(Printed(v, "error")) = 1
                 /\ console[Len(console)] = Printed(v, "error")[1]
                 /\ Len(Printed(v, "note")) = 0
                 /\ ~Over(v)
            ELSE /\ txs[k].fn = "publicApprove"
                 /\ hpc[v] = "rejected"
                 /\ exitCode = -1
                 /\ Len(Printed(v, "error")) = 0
                 /\ TxsOf(v, "confidentialTransfer") = {}

\* The shield's approval went through and its confidentialTransfer failed.
C3_Witness ==
    \E k \in TxIdx :
        /\ txs[k].status = "failed" /\ txs[k].fn = "confidentialTransfer"
        /\ call[txs[k].inv].kind = "shield"
        /\ exitCode = 255

ApproveIssued ==
    {"awaitApprove", "awaitShield", "logEvents.init", "logEvents.test",
     "epilogue", "returned", "rejected"}

\* C4: a shield submits publicApprove exactly once, to the engine, for the
\* zkAsset's address, the hash of the proof it transfers with and the amount
\* (sum of outputs - sum of inputs), i.e. -kPublic; confidentialTransfer is
\* submitted only after that approval succeeded, and never when it failed.
C4_ApproveThenTransfer ==
    \A v \in Inv :
        call[v].kind = "shield" =>
            LET A == TxsOf(v, "publicApprove")
                T == TxsOf(v, "confidentialTransfer")
            IN /\ Cardinality(A) <= 1
               /\ Cardinality(T) <= 1
               /\ hpc[v] \in ApproveIssued => Cardinality(A) = 1
               /\ \A a \in A :
                     /\ txs[a].on = "ace"
                     /\ txs[a].asset = "zkAsset.address"
                     /\ txs[a].amount = SumSeq(call[v].outputs) - SumSeq(call[v].inputs)
                     /\ txs[a].proof[2].inputs = call[v].inputs
                     /\ txs[a].proof[2].outputs = call[v].outputs
                     /\ txs[a].proof[2].kPublic = -txs[a].amount
                     /\ txs[a].status = "failed" => T = {}
                     /\ txs[a].status = "pending" => T = {}
               /\ \A x \in T :
                     /\ txs[x].on = "zkAsset"
                     /\ \E a \in A : a < x /\ txs[a].status = "ok"
                                     /\ txs[a].proof = <<"hash", txs[x].proof>>

\* A shield of two notes from no input: 3 units approved, then transferred.
C4_Witness ==
    \E v \in Inv :
        /\ call[v].kind = "shield" /\ call[v].inputs = <<>> /\ call[v].outputs = <<1, 2>>
        /\ \E a \in TxsOf(v, "publicApprove") : txs[a].amount = 3
        /\ TxsOf(v, "confidentialTransfer") # {}

\* C5: the kPublic handed to the join-split proof, by the transfer helper
\* and by the shield helper alike, is the sum of the input notes' values
\* minus the sum of the output notes' values, empty lists included.
C5_PublicDelta ==
    \A k \in TxIdx :
        LET v == txs[k].inv IN
        /\ txs[k].fn = "confidentialTransfer" =>
              /\ txs[k].proof.inputs = call[v].inputs
              /\ txs[k].proof.outputs = call[v].outputs
              /\ txs[k].proof.kPublic = SumSeq(call[v].inputs) - SumSeq(call[v].outputs)
        /\ txs[k].fn = "publicApprove" =>
              txs[k].proof[2].kPublic = SumSeq(call[v].inputs) - SumSeq(call[v].outputs)

\* A transfer of two input notes into one output note, with a public delta.
C5_Witness ==
    \E k \in TxIdx :
        /\ txs[k].fn = "confidentialTransfer" /\ call[txs[k].inv].kind = "transfer"
        /\ txs[k].proof.inputs = <<2, 2>> /\ txs[k].proof.outputs = <<1>>
        /\ txs[k].proof.kPublic = 3

\* What C8 expects printed for a list of logs.
RECURSIVE ExpectedRecords(_)
ExpectedRecords(logs) ==
    IF logs = <<>> THEN <<>>
    ELSE (IF Head(logs).event \in {"CreateNote", "DestroyNote"}
          THEN << <<Head(logs).event, Head(logs).owner, Head(logs).noteHash>> >>
          ELSE <<>>) \o ExpectedRecords(Tail(logs))

RecordsPrinted(v) ==
    LET p == Printed(v, "note") IN [n \in 1..Len(p) |-> <<p[n].text, p[n].owner, p[n].hash>>]

\* C8: logNoteEvents prints one record (event, owner, note hash) for each
\* CreateNote or DestroyNote entry, none for any other entry, in the order
\* of the entries: after n entries, the records of the first n; at the end,
\* those of the whole list.
C8_OneRecordPerNoteEvent ==
    \A v \in Inv :
        /\ hpc[v] = "logEvents.test" =>
              RecordsPrinted(v) = ExpectedRecords(SubSeq(receipt[v], 1, Len(visited[v])))
        /\ hpc[v] = "epilogue" => RecordsPrinted(v) = ExpectedRecords(receipt[v])

\* logNoteEvents is through a receipt whose first entry is of another kind
\* and whose second is a DestroyNote.
C8_Witness ==
    \E v \in Inv :
        /\ hpc[v] = "epilogue" /\ Len(receipt[v]) = 2
        /\ receipt[v][1].event = "UpdateTotalMinted"
        /\ receipt[v][2].event = "DestroyNote"
        /\ Len(RecordsPrinted(v)) = 1

Summing ==
    {"idle", "sumNotes.init", "sumNotes.test", "subOutputs.init", "subOutputs.test",
     "addInputs.init", "addInputs.test"}

\* C10: in every interleaving of invocations that switch only at an await,
\* each invocation, once through its summation loops, holds the
\* totalMintedValue or kPublic of its own notes, and logNoteEvents runs its
\* body once on each entry of the invocation's own receipt, in order.
C10_CounterDoesNotLeak ==
    \A v \in Inv :
        /\ hpc[v] \notin Summing =>
              acc[v] = IF call[v].kind = "mint"
                       THEN SumSeq(call[v].outputs)
                       ELSE SumSeq(call[v].inputs) - SumSeq(call[v].outputs)
        /\ hpc[v] = "logEvents.test" =>
              \A n \in 1..Len(visited[v]) : visited[v][n] = n
        /\ hpc[v] = "epilogue" => visited[v] = [n \in 1..Len(receipt[v]) |-> n]

\* The second invocation ran its loops and logNoteEvents while the first
\* was suspended in its confidentialMint.
C10_Witness ==
    /\ hpc[1] = "awaitMint" /\ call[1].outputs = <<5, 7>> /\ acc[1] = 12
    /\ hpc[2] = "epilogue" /\ call[2].kind = "transfer" /\ acc[2] = 0
    /\ visited[2] = <<1, 2>>

====
